---------------------------- MODULE Spec2Model ----------------------------
(***************************************************************************)
(* DataConnection of skyway-js-sdk: the chunked send path, the timer-driven *)
(* send loop and the reassembly of inbound chunks.                          *)
(*                                                                          *)
(* One DataConnection object is modelled.  Its environment is the           *)
(* application (send, close), the negotiator (dcReady), the data channel    *)
(* (onopen, onmessage, onclose, and a send that may throw), the interval    *)
(* timer and the asynchronous blob-to-buffer callbacks.                     *)
(*                                                                          *)
(* An application value is represented by the bytes util.pack gives for it; *)
(* a packed chunk envelope is represented by the envelope's fields.         *)
(***************************************************************************)
EXTENDS Integers, Sequences, FiniteSets, TLC

(***************************************************************************)
(* Bounds of the model.                                                     *)
(***************************************************************************)
\* largest packed payload size (bytes) a send is tried with, where the
\* send loop runs and where the chunker alone is looked at
MaxValue == 2
MaxSize == 5
\* util.maxChunkSize, scaled down to a few bytes
maxChunkSize == 3
\* number of entries (values, chunks) the sends create in all, where the
\* send loop runs and where the chunker alone is looked at
MaxEntries == 2
MaxChunks == 3
\* the same two with a small load: where the session's whole life, sending
\* and receiving, is looked at (both), and where the drain of the queue is
\* followed to its end (the first)
MaxCloseValue == 1
MaxCloseEntries == 1
\* number of hand-offs an open channel rejects
MaxFail == 1
\* largest totalParts the remote peer announces in an inbound chunk
MaxParts == 2

(***************************************************************************)
(* Values, queue entries and channel messages.                              *)
(***************************************************************************)
Min(a, b) == IF a < b THEN a ELSE b

\* the bytes of a payload of size s: byte i carries its position
Payload(s) == [i \in 1..s |-> i]

\* what the application may hand to send(): null/undefined, or a value
\* whose packed form has up to maxSize bytes
Values(maxSize) ==
    {[isNull |-> TRUE, bytes |-> <<>>]}
        \cup {[isNull |-> FALSE, bytes |-> Payload(s)] : s \in 0..maxSize}

\* sizeof(dataMeta): depends on the type name, file name and mime type
MetaSizes == 1..(maxChunkSize + 1)

\* an entry of _sendBuffer / a message on the channel that is no chunk
Plain(kind, v) ==
    [kind |-> kind, val |-> v, id |-> 0, totalParts |-> 0, index |-> 0,
     size |-> 0, data |-> <<>>]

\* util.pack(dataMeta) as an array buffer: a packed chunk envelope
Chunk(id, tp, idx, size, data) ==
    [kind |-> "chunk", val |-> <<>>, id |-> id, totalParts |-> tp,
     index |-> idx, size |-> size, data |-> data]

\* what Array.prototype.shift() gives on an empty array
Undefined == Plain("undefined", <<>>)

\* the transfer ids of the remote peer's chunks.  _handleDataMessage reads
\* and writes the table entry of the one id its message carries, so two ids
\* show every way one transfer can meet another
Ids == {1, 2}

\* the chunk envelopes the remote peer may deliver when the table is rd:
\* any index from -1 to totalParts, so well formed or not; every chunk of a
\* transfer repeats the envelope of its first, so its totalParts
InboundFrom(rd, ids) ==
    UNION { UNION { { Chunk(id, tp, idx, tp, <<id, idx>>) :
                        idx \in (-1)..tp } :
                    tp \in (IF id \in DOMAIN rd THEN {rd[id].totalParts}
                            ELSE 1..MaxParts) } :
            id \in ids }

InboundChunks(rd) == InboundFrom(rd, Ids)

\* the messages the remote peer may deliver in modes none and json
InboundPlain == { Plain(k, Payload(s)) : k \in {"raw", "json"}, s \in 0..1 }

Event(name, payload) == [name |-> name, payload |-> payload]
ErrorEvent == Event("error", <<>>)
OpenEvent == Event("open", <<>>)

(***************************************************************************)
(* State.                                                                   *)
(***************************************************************************)
VARIABLES
    serialization,  \* this.serialization
    dc,             \* the channel: "none" (no dcReady yet), "connecting",
                    \*   "open", "closed"
    open,           \* this.open
    sendBuffer,     \* this._sendBuffer
    receivedData,   \* this._receivedData: transfer id -> transfer
    sendInterval,   \* this.sendInterval is set
    timers,         \* interval timers alive in the environment
    packing,        \* blobToArrayBuffer calls whose callback has not run
    hung,           \* send() is in a loop that never ends
    dcSent,         \* messages _dc.send accepted, in order
    \* --- history, for stating properties ---
    enqueued,       \* entries pushed by send, in push order
    nFail,          \* hand-offs the open channel rejected so far
    arrivals,       \* per live transfer: deliveries since its creation
                    \*   (n: how many, idx: their distinct indexes)
    lastOp,         \* the handler that ran last
    lastEvents,     \* the events it emitted
    lastThrew,      \* whether it ended by throwing
    lastMsg,        \* the inbound message / the value it was given
    lastCur,        \* onmessage that completes: the completed transfer
    lastArr,        \* onmessage that completes: its arrivals
    lastSend        \* send: size, chunk size and the chunks created

vars == <<serialization, dc, open, sendBuffer, receivedData, sendInterval,
          timers, packing, hung, dcSent, enqueued, nFail,
          arrivals, lastOp, lastEvents, lastThrew, lastMsg,
          lastCur, lastArr, lastSend>>

connVars == <<serialization, dc, open>>
queueVars == <<sendBuffer, sendInterval, timers, dcSent, enqueued, nFail>>
recvVars == <<receivedData, arrivals>>

EmptyFcn == [x \in {} |-> 0]

\* new Array(n): length n, every slot a hole
NewArray(n) == [len |-> n, slots |-> EmptyFcn]

NoTransfer == [size |-> 0, totalParts |-> 0, parts |-> NewArray(0),
               receivedParts |-> 0]

NoArrivals == [n |-> 0, idx |-> {}]

\* given: the call had a value (not null); accepted: and the session was open
NoSend == [given |-> FALSE, accepted |-> FALSE, size |-> 0, chunkSize |-> 0,
           chunks |-> <<>>]

Init ==
    /\ serialization \in {"binary", "binary-utf8", "json", "none"}
    /\ dc = "none"
    /\ open = FALSE
    /\ sendBuffer = <<>>
    /\ receivedData = EmptyFcn
    /\ sendInterval = FALSE
    /\ timers = 0
    /\ packing = <<>>
    /\ hung = FALSE
    /\ dcSent = <<>>
    /\ enqueued = <<>>
    /\ nFail = 0
    /\ arrivals = EmptyFcn
    /\ lastOp = "init"
    /\ lastEvents = <<>>
    /\ lastThrew = FALSE
    /\ lastMsg = Undefined
    /\ lastCur = NoTransfer
    /\ lastArr = NoArrivals
    /\ lastSend = NoSend

IsBinary == serialization \in {"binary", "binary-utf8"}

\* the history variables of a handler that is neither onmessage nor send
Last(op, events) ==
    /\ lastOp' = op
    /\ lastEvents' = events
    /\ lastThrew' = FALSE
    /\ lastMsg' = Undefined
    /\ lastCur' = NoTransfer
    /\ lastArr' = NoArrivals
    /\ lastSend' = NoSend

(***************************************************************************)
(* The channel's life cycle.                                                *)
(***************************************************************************)
\* negotiator 'dcReady': this._dc = dc; this._setupMessageHandlers()
DcReady ==
    /\ ~hung
    /\ dc = "none"
    /\ dc' = "connecting"
    /\ Last("dcReady", <<>>)
    /\ UNCHANGED <<serialization, open, queueVars, recvVars, packing, hung>>

\* _dc.onopen: this.open = true; emit('open')
DcOnOpen ==
    /\ ~hung
    /\ dc = "connecting"
    /\ dc' = "open"
    /\ open' = TRUE
    /\ Last("onopen", <<OpenEvent>>)
    /\ UNCHANGED <<serialization, queueVars, recvVars, packing, hung>>

\* a close that only marks the session closed and leaves the transfers, the
\* send queue and the timer as they are
CloseSession_KeepAll ==
    /\ open' = FALSE
    /\ dc' = "closed"
    /\ UNCHANGED <<serialization, sendBuffer, receivedData, arrivals,
                   sendInterval, timers, packing, hung, dcSent, enqueued,
                   nFail>>

\* Connection.close(): the session closes and discards its transfers and
\* its send queue; the drain timer stops
CloseSession ==
    /\ open' = FALSE
    /\ dc' = "closed"
    /\ sendBuffer' = <<>>
    /\ receivedData' = EmptyFcn
    /\ arrivals' = EmptyFcn
    /\ sendInterval' = FALSE
    /\ timers' = IF sendInterval THEN timers - 1 ELSE timers
    /\ UNCHANGED <<serialization, packing, hung, dcSent, enqueued, nFail>>

\* _dc.onclose: this.close()
DcOnClose ==
    /\ ~hung
    /\ dc \in {"connecting", "open"}
    /\ CloseSession
    /\ Last("close", <<>>)

\* the application calls close()
Close ==
    /\ ~hung
    /\ dc # "closed"
    /\ CloseSession
    /\ Last("close", <<>>)

(***************************************************************************)
(* The send loop.                                                           *)
(***************************************************************************)
\* a _startSendLoop without the test of this.sendInterval
StartSendLoop_Always(t) ==
    [sendInterval |-> TRUE, timers |-> t.timers + 1]

\* a _startSendLoop that sets no interval
StartSendLoop_Never(t) == t

\* _startSendLoop(): the timer state after the call
StartSendLoop(t) ==
    IF ~t.sendInterval
    THEN [sendInterval |-> TRUE, timers |-> t.timers + 1]
    ELSE t

\* a callback whose catch block drops the entry
TickStep_Drop(buf, ok) ==
    LET currMsg == IF buf = <<>> THEN Undefined ELSE Head(buf)
        rest == IF buf = <<>> THEN <<>> ELSE Tail(buf)
    IN  IF ok
        THEN [buf |-> rest, sent |-> <<currMsg>>]
        ELSE [buf |-> rest, sent |-> <<>>]

\* the interval callback up to the emptiness test: shift, try send, the
\* catch that pushes the entry back
TickStep(buf, ok) ==
    LET currMsg == IF buf = <<>> THEN Undefined ELSE Head(buf)
        rest == IF buf = <<>> THEN <<>> ELSE Tail(buf)
    IN  IF ok
        THEN [buf |-> rest, sent |-> <<currMsg>>]
        ELSE [buf |-> Append(rest, currMsg), sent |-> <<>>]

\* an interval callback without the clearInterval on an empty queue
Tick_NoClear ==
    /\ ~hung
    /\ timers > 0
    /\ \E ok \in BOOLEAN :
        /\ ok => dc = "open"
        /\ (~ok /\ dc = "open") => nFail < MaxFail
        /\ LET r == TickStep(sendBuffer, ok)
           IN  /\ sendBuffer' = r.buf
               /\ dcSent' = dcSent \o r.sent
               /\ nFail' = IF ~ok /\ dc = "open" THEN nFail + 1 ELSE nFail
    /\ Last("tick", <<>>)
    /\ UNCHANGED <<connVars, recvVars, packing, hung, enqueued,
                   sendInterval, timers>>

\* one firing of the interval callback; ok: _dc.send did not throw
Tick ==
    /\ ~hung
    /\ timers > 0
    /\ \E ok \in BOOLEAN :
        /\ ok => dc = "open"
        /\ (~ok /\ dc = "open") => nFail < MaxFail
        /\ LET r == TickStep(sendBuffer, ok)
               cleared == Len(r.buf) = 0
           IN  /\ sendBuffer' = r.buf
               /\ dcSent' = dcSent \o r.sent
               /\ sendInterval' = IF cleared THEN FALSE ELSE sendInterval
               /\ timers' = IF cleared /\ sendInterval
                            THEN timers - 1 ELSE timers
               /\ nFail' = IF ~ok /\ dc = "open" THEN nFail + 1 ELSE nFail
    /\ Last("tick", <<>>)
    /\ UNCHANGED <<connVars, recvVars, packing, hung, enqueued>>

\* the callback of util.blobToArrayBuffer for the i-th pending chunk:
\* push the array buffer, start the send loop
PackDone ==
    /\ ~hung
    /\ \E i \in 1..Len(packing) :
        LET t == StartSendLoop([sendInterval |-> sendInterval,
                                timers |-> timers])
        IN  /\ sendBuffer' = Append(sendBuffer, packing[i])
            /\ enqueued' = Append(enqueued, packing[i])
            /\ packing' = SubSeq(packing, 1, i - 1)
                             \o SubSeq(packing, i + 1, Len(packing))
            /\ sendInterval' = t.sendInterval
            /\ timers' = t.timers
    /\ Last("pack", <<>>)
    /\ UNCHANGED <<connVars, recvVars, hung, dcSent, nFail>>

(***************************************************************************)
(* send(data).                                                              *)
(***************************************************************************)
\* a slice count that rounds down: Math.floor in place of Math.ceil
NumSlices_Floor(size, chunkSize) ==
    IF chunkSize > 0 THEN size \div chunkSize
    ELSE IF chunkSize < 0 THEN -(size \div (-chunkSize))
    ELSE 0

\* Math.ceil(size / chunkSize) where that is a finite number; for
\* chunkSize = 0 and size = 0 it is NaN and the slicing loop's test is false
NumSlices(size, chunkSize) ==
    IF chunkSize > 0 THEN (size + chunkSize - 1) \div chunkSize
    ELSE IF chunkSize < 0 THEN -(size \div (-chunkSize))
    ELSE 0

\* Math.ceil(size / 0) = Infinity: the slicing loop never ends
Diverges(size, chunkSize) == chunkSize = 0 /\ size > 0

\* packedData.slice(start, end): Blob.slice cuts end to the blob's size
Slice(packed, start, end) == SubSeq(packed, start + 1, Min(end, Len(packed)))

\* util.randomId(): an id that no chunk made so far carries
RandomId == Len(enqueued) + Len(packing) + 1

NoEffect == [events |-> <<>>, push |-> <<>>, blobs |-> <<>>, hang |-> FALSE,
             size |-> 0, chunkSize |-> 0]

\* the binary branch of send: pack, size the chunks, slice, and hand each
\* packed envelope to util.blobToArrayBuffer
SendBinary(data, metaSize) ==
    LET packedData == data.bytes
        size == Len(packedData)
        id == RandomId
        chunkSize == maxChunkSize - metaSize
        numSlices == NumSlices(size, chunkSize)
    IN  IF Diverges(size, chunkSize)
        THEN [NoEffect EXCEPT !.hang = TRUE, !.size = size,
                              !.chunkSize = chunkSize]
        ELSE [NoEffect EXCEPT
                !.size = size,
                !.chunkSize = chunkSize,
                !.blobs =
                    IF numSlices <= 0 THEN <<>>
                    ELSE [sliceIndex \in 1..numSlices |->
                            Chunk(id, numSlices, sliceIndex - 1, size,
                                  Slice(packedData,
                                        (sliceIndex - 1) * chunkSize,
                                        sliceIndex * chunkSize))]]

\* a send without the test of this.open
SendEffect_NoOpenCheck(data, metaSize) ==
    IF data.isNull THEN NoEffect
    ELSE IF serialization = "none"
         THEN [NoEffect EXCEPT !.push = <<Plain("raw", data.bytes)>>]
    ELSE IF serialization = "json"
         THEN [NoEffect EXCEPT !.push = <<Plain("json", data.bytes)>>]
    ELSE SendBinary(data, metaSize)

\* a send whose json branch pushes the value without JSON.stringify
SendEffect_NoStringify(data, metaSize) ==
    IF ~open THEN [NoEffect EXCEPT !.events = <<ErrorEvent>>]
    ELSE IF data.isNull THEN NoEffect
    ELSE IF serialization \in {"none", "json"}
         THEN [NoEffect EXCEPT !.push = <<Plain("raw", data.bytes)>>]
    ELSE SendBinary(data, metaSize)

\* send(data): what the call emits, pushes on _sendBuffer and hands to
\* util.blobToArrayBuffer
SendEffect(data, metaSize) ==
    IF ~open THEN [NoEffect EXCEPT !.events = <<ErrorEvent>>]
    ELSE IF data.isNull THEN NoEffect
    ELSE IF serialization = "none"
         THEN [NoEffect EXCEPT !.push = <<Plain("raw", data.bytes)>>]
    ELSE IF serialization = "json"
         THEN [NoEffect EXCEPT !.push = <<Plain("json", data.bytes)>>]
    ELSE SendBinary(data, metaSize)

\* the application calls send(data), with a value of up to maxSize bytes
\* and while the sends have created fewer than maxEntries entries; trace:
\* whether the history keeps the sizes and the chunks of the call
SendCall(trace, maxSize, maxEntries) ==
    /\ ~hung
    /\ \E data \in Values(maxSize) :
        \* sizeof(dataMeta) is taken in the binary branch only
        \E metaSize \in (IF open /\ ~data.isNull /\ IsBinary
                          THEN MetaSizes ELSE {1}) :
        LET accepted == open /\ ~data.isNull
            r == SendEffect(data, metaSize)
            t == IF r.push = <<>>
                 THEN [sendInterval |-> sendInterval, timers |-> timers]
                 ELSE StartSendLoop([sendInterval |-> sendInterval,
                                     timers |-> timers])
        IN  /\ Len(enqueued) + Len(packing) + Len(r.push) + Len(r.blobs)
                  <= maxEntries
            /\ sendBuffer' = sendBuffer \o r.push
            /\ enqueued' = enqueued \o r.push
            /\ packing' = packing \o r.blobs
            /\ sendInterval' = t.sendInterval
            /\ timers' = t.timers
            /\ hung' = r.hang
            /\ lastOp' = "send"
            /\ lastEvents' = r.events
            /\ lastThrew' = FALSE
            /\ lastMsg' = IF accepted THEN Plain("raw", data.bytes)
                          ELSE Undefined
            /\ lastCur' = NoTransfer
            /\ lastArr' = NoArrivals
            /\ lastSend' = [given |-> ~data.isNull,
                            accepted |-> accepted,
                            size |-> IF trace THEN r.size ELSE 0,
                            chunkSize |-> IF trace THEN r.chunkSize ELSE 0,
                            chunks |-> IF trace THEN r.blobs ELSE <<>>]
    /\ UNCHANGED <<connVars, recvVars, dcSent, nFail>>

Send == SendCall(FALSE, MaxValue, MaxEntries)

SendTraced == SendCall(TRUE, MaxSize, MaxChunks)

(***************************************************************************)
(* _handleDataMessage(msg).                                                 *)
(***************************************************************************)
Put(f, k, v) == [x \in DOMAIN f \cup {k} |-> IF x = k THEN v ELSE f[x]]
\* this._receivedData = {} in place of the delete of one id
Drop_All(f, k) == EmptyFcn
Drop(f, k) == [x \in DOMAIN f \ {k} |-> f[x]]

\* parts.push(data): the slice goes behind the ones that came before it
SetSlot_Push(parts, index, data) ==
    [len |-> parts.len + 1,
     slots |-> Put(parts.slots, Cardinality(DOMAIN parts.slots), data)]

\* parts[index] = data on a JavaScript array: an index at or past the
\* length grows the array, a negative index sets a property that is no
\* element
SetSlot(parts, index, data) ==
    [len |-> IF index >= parts.len THEN index + 1 ELSE parts.len,
     slots |-> Put(parts.slots, index, data)]

\* util.joinArrayBuffers(parts): the elements in index order, one after the
\* other; a hole contributes nothing
RECURSIVE JoinFrom(_, _)
JoinFrom(parts, i) ==
    IF i >= parts.len THEN <<>>
    ELSE (IF i \in DOMAIN parts.slots THEN parts.slots[i] ELSE <<>>)
            \o JoinFrom(parts, i + 1)

JoinArrayBuffers(parts) == JoinFrom(parts, 0)

\* a handler that emits on completion but forgets the delete
HandleChunk_NoDelete(rd, dataMeta) ==
    LET fresh == [size |-> dataMeta.size,
                  totalParts |-> dataMeta.totalParts,
                  parts |-> NewArray(dataMeta.totalParts),
                  receivedParts |-> 0]
        currData == IF dataMeta.id \in DOMAIN rd THEN rd[dataMeta.id]
                    ELSE fresh
        cur == [currData EXCEPT
                  !.receivedParts = @ + 1,
                  !.parts = SetSlot(@, dataMeta.index, dataMeta.data)]
    IN  [rd |-> Put(rd, dataMeta.id, cur),
         events |-> IF cur.receivedParts = cur.totalParts
                    THEN <<Event("data", JoinArrayBuffers(cur.parts))>>
                    ELSE <<>>,
         threw |-> FALSE, cur |-> cur]

\* the binary part of _handleDataMessage on the table rd
HandleChunk(rd, dataMeta) ==
    LET fresh == [size |-> dataMeta.size,
                  totalParts |-> dataMeta.totalParts,
                  parts |-> NewArray(dataMeta.totalParts),
                  receivedParts |-> 0]
        currData == IF dataMeta.id \in DOMAIN rd THEN rd[dataMeta.id]
                    ELSE fresh
        cur == [currData EXCEPT
                  !.receivedParts = @ + 1,
                  !.parts = SetSlot(@, dataMeta.index, dataMeta.data)]
    IN  IF cur.receivedParts = cur.totalParts
        THEN [rd |-> Drop(rd, dataMeta.id),
              events |-> <<Event("data", JoinArrayBuffers(cur.parts))>>,
              threw |-> FALSE, cur |-> cur]
        ELSE [rd |-> Put(rd, dataMeta.id, cur),
              events |-> <<>>, threw |-> FALSE, cur |-> cur]

\* _handleDataMessage(msg); modes none and json emit with the Enum item
\* EVENTS.data itself, the binary modes with its key 'data'; JSON.parse
\* throws on text that is no JSON
HandleDataMessage(rd, msg) ==
    IF serialization = "none"
    THEN [rd |-> rd, events |-> <<Event("EVENTS.data", msg.val)>>,
          threw |-> FALSE, cur |-> NoTransfer]
    ELSE IF serialization = "json"
    THEN IF msg.kind = "json"
         THEN [rd |-> rd, events |-> <<Event("EVENTS.data", msg.val)>>,
               threw |-> FALSE, cur |-> NoTransfer]
         ELSE [rd |-> rd, events |-> <<>>, threw |-> TRUE,
               cur |-> NoTransfer]
    ELSE HandleChunk(rd, msg)

\* _dc.onmessage: the channel delivers a message of the remote peer, a
\* chunk of one of the transfers ids in the binary modes
MessageFrom(ids) ==
    /\ ~hung
    /\ dc = "open"
    /\ \E msg \in (IF IsBinary THEN InboundFrom(receivedData, ids)
                   ELSE InboundPlain) :
        /\ LET r == HandleDataMessage(receivedData, msg)
               old == IF msg.id \in DOMAIN arrivals THEN arrivals[msg.id]
                      ELSE NoArrivals
               arr == [n |-> old.n + 1, idx |-> old.idx \cup {msg.index}]
               done == IsBinary /\ msg.id \notin DOMAIN r.rd
           IN  /\ receivedData' = r.rd
               /\ arrivals' = IF ~IsBinary THEN arrivals
                              ELSE IF done THEN Drop(arrivals, msg.id)
                              ELSE Put(arrivals, msg.id, arr)
               /\ lastOp' = "message"
               /\ lastEvents' = r.events
               /\ lastThrew' = r.threw
               /\ lastMsg' = msg
               /\ lastCur' = IF done THEN r.cur ELSE NoTransfer
               /\ lastArr' = IF done THEN arr ELSE NoArrivals
               /\ lastSend' = NoSend
    /\ UNCHANGED <<connVars, queueVars, packing, hung>>

Message == MessageFrom(Ids)

\* where the whole session is looked at: one inbound transfer at a time
\* and sends that create up to MaxCloseEntries entries
MessageOne == MessageFrom({1})

SendFew == SendCall(FALSE, MaxCloseValue, MaxCloseEntries)

\* sends of small values, up to MaxEntries entries
SendSmall == SendCall(FALSE, MaxCloseValue, MaxEntries)

(***************************************************************************)
(* The specification.                                                       *)
(***************************************************************************)
\* the whole connection
Next ==
    \/ DcReady
    \/ DcOnOpen
    \/ DcOnClose
    \/ Close
    \/ Send
    \/ PackDone
    \/ Tick
    \/ Message

Spec == Init /\ [][Next]_vars

\* the sending half: no message arrives.  send, the pack callbacks and the
\* timer read and write no field that _handleDataMessage touches
NextSend ==
    \/ DcReady
    \/ DcOnOpen
    \/ DcOnClose
    \/ Close
    \/ Send
    \/ PackDone
    \/ Tick

SpecSend == Init /\ [][NextSend]_vars

\* the sending half with small values and a timer that keeps firing: while
\* an interval is set, setInterval runs its callback again and again
NextDrain ==
    \/ DcReady
    \/ DcOnOpen
    \/ DcOnClose
    \/ Close
    \/ SendSmall
    \/ PackDone
    \/ Tick

FairDrain == Init /\ [][NextDrain]_vars /\ WF_vars(Tick)

\* the receiving half: the application sends nothing
NextRecv ==
    \/ DcReady
    \/ DcOnOpen
    \/ DcOnClose
    \/ Close
    \/ Message

SpecRecv == Init /\ [][NextRecv]_vars

\* the chunker: sends whose sizes and chunks the history keeps, before any
\* pack callback or timer tick has run
NextChunk ==
    \/ DcReady
    \/ DcOnOpen
    \/ SendTraced

SpecChunk == Init /\ [][NextChunk]_vars

\* the session's whole life with a small load: sending and receiving up
\* to and after the close
NextClose ==
    \/ DcReady
    \/ DcOnOpen
    \/ DcOnClose
    \/ Close
    \/ SendFew
    \/ PackDone
    \/ Tick
    \/ MessageOne

SpecClose == Init /\ [][NextClose]_vars

(***************************************************************************)
(* Properties.                                                              *)
(***************************************************************************)
IsPrefix(s, t) == Len(s) <= Len(t) /\ SubSeq(t, 1, Len(s)) = s

Pending == dc \in {"none", "connecting"}

\* the last handler was _handleDataMessage in a binary mode
BinaryMessage == lastOp = "message" /\ IsBinary

\* ... and it emitted a data event
Completed == BinaryMessage /\ lastEvents # <<>>

\* the deliveries arr are all of different indexes within [0, tp)
Distinct(arr) == Cardinality(arr.idx) = arr.n
InRange(arr, tp) == arr.idx \subseteq 0..(tp - 1)

\* the slices the remote peer sends for transfer id, in index order
RECURSIVE SlicesFrom(_, _, _)
SlicesFrom(id, i, tp) ==
    IF i >= tp THEN <<>> ELSE <<id, i>> \o SlicesFrom(id, i + 1, tp)

\* C1: with one rejected hand-off that succeeds on the next attempt, the
\* entries handed to the channel are in enqueue order: what the channel got
\* is always a prefix of what was enqueued
C1_FifoUnderRetry == nFail <= 1 => IsPrefix(dcSent, enqueued)

\* C2: receivedParts of a live transfer is the number of distinct indexes
\* delivered for it, and a transfer completes only when that number is
\* totalParts (a chunk delivered again completes nothing)
C2_DuplicateTolerance ==
    /\ \A id \in DOMAIN receivedData :
          receivedData[id].receivedParts = Cardinality(arrivals[id].idx)
    /\ Completed => Cardinality(lastArr.idx) = lastCur.totalParts

\* C3: a data event is emitted only when every index in [0, totalParts) of
\* the transfer holds a received slice
C3_NoPartialDelivery ==
    Completed =>
        \A i \in 0..(lastCur.totalParts - 1) : i \in DOMAIN lastCur.parts.slots

\* C4: send on a session that is not open emits exactly one error event,
\* does not throw, and leaves the send queue, the packing stage, the drain
\* timer and the channel as they were
C4_SendWhileNotOpen ==
    [][ (lastOp' = "send" /\ ~open) =>
            /\ lastEvents' = <<ErrorEvent>>
            /\ ~lastThrew'
            /\ ~hung'
            /\ UNCHANGED <<sendBuffer, packing, sendInterval, timers,
                           dcSent>> ]_vars

C4_Witness ==
    lastOp = "send" /\ dc = "closed" /\ lastSend.given /\ dcSent # <<>>

C6_OrderIndependence ==
    /\ (Completed /\ Distinct(lastArr)
            /\ InRange(lastArr, lastCur.totalParts)) =>
          /\ lastArr.n = lastCur.totalParts
          /\ lastEvents =
                <<Event("data",
                        SlicesFrom(lastMsg.id, 0, lastCur.totalParts))>>
    /\ \A id \in DOMAIN receivedData :
          (Distinct(arrivals[id])
              /\ InRange(arrivals[id], receivedData[id].totalParts))
            => arrivals[id].n < receivedData[id].totalParts

\* the chunk with index 0 arrives last and completes a transfer of two
C6_Witness ==
    /\ Completed
    /\ Distinct(lastArr)
    /\ InRange(lastArr, lastCur.totalParts)
    /\ lastCur.totalParts = 2
    /\ lastMsg.index = 0

\* C7: a chunk whose index is negative or at least totalParts raises an
\* error event, emits no data event and leaves no transfer of its id
C7_MalformedRejected ==
    (BinaryMessage
        /\ (lastMsg.index < 0 \/ lastMsg.index >= lastMsg.totalParts))
      => /\ lastEvents = <<ErrorEvent>>
         /\ lastMsg.id \notin DOMAIN receivedData

\* the events of delivering the chunks chunks[i..] in order to a receiver
\* whose table is rd
RECURSIVE DeliverFrom(_, _, _)
DeliverFrom(rd, chunks, i) ==
    IF i > Len(chunks) THEN <<>>
    ELSE LET r == HandleChunk(rd, chunks[i])
         IN  r.events \o DeliverFrom(r.rd, chunks, i + 1)

\* a send in a binary mode, on an open session, of a value, with a positive
\* chunk size
ChunkedSend ==
    lastOp = "send" /\ IsBinary /\ lastSend.accepted
        /\ lastSend.chunkSize > 0

\* C8: a packed payload of S bytes with chunk size C > 0 makes n = ceil(S/C)
\* chunks, handed on in index order; chunk i has index i, totalParts n and
\* the bytes [i*C, min(S, (i+1)*C)), so the last one has S - C*(n-1) bytes
C8_ChunkCountAndSlicing ==
    ChunkedSend =>
        LET S == lastSend.size
            C == lastSend.chunkSize
            chunks == lastSend.chunks
            n == Len(chunks)
        IN  /\ n * C >= S
            /\ n = 0 \/ (n - 1) * C < S
            /\ \A k \in 1..n :
                  /\ chunks[k].kind = "chunk"
                  /\ chunks[k].index = k - 1
                  /\ chunks[k].totalParts = n
                  /\ chunks[k].data =
                        [j \in 1..(Min(S, k * C) - (k - 1) * C) |->
                            (k - 1) * C + j]
            /\ n > 0 => Len(chunks[n].data) = S - C * (n - 1)
            /\ Len(packing) >= n
            /\ SubSeq(packing, Len(packing) - n + 1, Len(packing)) = chunks

\* five bytes in chunks of two: two full chunks and a last one of one byte
C8_Witness ==
    /\ ChunkedSend
    /\ lastSend.size = 5
    /\ lastSend.chunkSize = 2
    /\ Len(lastSend.chunks) = 3

C10_NonChunkedSend ==
    /\ [][ (lastOp' = "send" /\ lastSend'.accepted /\ ~IsBinary) =>
              /\ sendBuffer' =
                    Append(sendBuffer,
                           Plain(IF serialization = "none" THEN "raw"
                                 ELSE "json", lastMsg'.val))
              /\ lastEvents' = <<>>
              /\ UNCHANGED <<packing, dcSent>> ]_vars
    /\ []((open /\ ~IsBinary) =>
            /\ packing = <<>>
            /\ Len(sendBuffer) + Len(dcSent) = Len(enqueued)
            /\ \A i \in 1..Len(dcSent) :
                  dcSent[i].kind
                    = (IF serialization = "none" THEN "raw" ELSE "json"))

\* a json send was handed to the channel and the next one waits in the
\* queue
C10_Witness ==
    /\ lastOp = "send"
    /\ lastSend.accepted
    /\ serialization = "json"
    /\ Len(dcSent) = 1
    /\ Len(sendBuffer) = 1

\* C11: in mode none every inbound message makes exactly one event named
\* 'data', the name the binary modes emit on completion, carrying the
\* received value unchanged; in mode json a message that is JSON text makes
\* exactly one 'data' event carrying the decoded value; in neither mode is
\* there an entry in the reassembly table
C11_NonChunkedDispatch ==
    /\ (lastOp = "message" /\ serialization = "none") =>
          lastEvents = <<Event("data", lastMsg.val)>>
    /\ (lastOp = "message" /\ serialization = "json"
            /\ lastMsg.kind = "json") =>
          lastEvents = <<Event("data", lastMsg.val)>>
    /\ ~IsBinary => receivedData = EmptyFcn

\* some event of the sequence is a data event, under either name
HasData(events) ==
    \E i \in 1..Len(events) : events[i].name \in {"data", "EVENTS.data"}

\* C12: the step that closes the session, by close() or by the channel's
\* onclose, from pending or open, leaves the reassembly table and the send
\* queue empty and no drain timer; from then on the session stays closed,
\* nothing more is handed to the channel and no data event is emitted
C12_CloseTerminal ==
    /\ [][ lastOp' = "close" =>
              /\ dc' = "closed"
              /\ ~open'
              /\ receivedData' = EmptyFcn
              /\ sendBuffer' = <<>>
              /\ ~sendInterval'
              /\ timers' = 0 ]_vars
    /\ [][ dc = "closed" =>
              /\ dc' = "closed"
              /\ ~open'
              /\ dcSent' = dcSent
              /\ ~HasData(lastEvents') ]_vars

\* a close that discarded an entry no tick had handed to the channel
C12_Witness ==
    /\ lastOp = "close"
    /\ Len(enqueued) = 1
    /\ dcSent = <<>>
    /\ sendBuffer = <<>>


\* a send in a binary mode, on an open session, of a value, where the
\* envelope's metadata leaves no room for payload: chunk size <= 0
OversizedMeta ==
    lastOp = "send" /\ IsBinary /\ lastSend.accepted
        /\ lastSend.chunkSize <= 0

\* C13: a binary send whose chunk size is <= 0 ends, reports the failure
\* (an error event or an exception), hands no chunk on towards the send
\* queue and leaves the session open
C13_ChunkSizeError ==
    OversizedMeta =>
        /\ ~hung
        /\ lastEvents = <<ErrorEvent>> \/ lastThrew
        /\ lastSend.chunks = <<>>
        /\ open


Count(seq, e) == Cardinality({i \in 1..Len(seq) : seq[i] = e})

\* s and t hold the same entries, each as often
SameEntries(s, t) ==
    /\ Len(s) = Len(t)
    /\ \A i \in 1..Len(s) : Count(s, s[i]) = Count(t, s[i])

\* C15: until the session closes, the entries in the send queue together
\* with those handed to the channel are the entries pushed, each once; a
\* tick finds the queue non-empty, takes its head and either hands it to
\* the channel or, when the channel rejects it, puts it back in the queue
C15_NoLossNoDuplication ==
    /\ [](dc # "closed" => SameEntries(dcSent \o sendBuffer, enqueued))
    /\ [][ lastOp' = "tick" =>
              /\ sendBuffer # <<>>
              /\ \/ /\ sendBuffer' = Tail(sendBuffer)
                    /\ dcSent' = Append(dcSent, Head(sendBuffer))
                 \/ /\ dcSent' = dcSent
                    /\ IsPrefix(Tail(sendBuffer), sendBuffer')
                    /\ SameEntries(sendBuffer', sendBuffer) ]_vars

\* the open channel rejected the head of a queue of two: both are queued
C15_Witness ==
    /\ lastOp = "tick"
    /\ dc = "open"
    /\ nFail = 1
    /\ dcSent = <<>>
    /\ Len(sendBuffer) = 2


\* C16: between handlers the drain timer is set exactly when the send queue
\* is non-empty; it is set by a push on the empty queue, and cleared by the
\* tick that leaves the queue empty (or by the close); no tick runs on an
\* empty queue
C16_DrainLoopLifecycle ==
    /\ [](/\ sendInterval <=> sendBuffer # <<>>
          /\ timers > 0 <=> sendBuffer # <<>>)
    /\ [][ (~sendInterval /\ sendInterval') =>
              /\ sendBuffer = <<>>
              /\ sendBuffer' # <<>>
              /\ lastOp' \in {"send", "pack"} ]_vars
    /\ [][ (sendInterval /\ ~sendInterval') =>
              /\ sendBuffer' = <<>>
              /\ lastOp' \in {"tick", "close"} ]_vars
    /\ [][ lastOp' = "tick" => sendBuffer # <<>> ]_vars

\* the tick that hands over the last entry of two and stops the timer
C16_Witness ==
    /\ lastOp = "tick"
    /\ Len(dcSent) = 2
    /\ sendBuffer = <<>>
    /\ ~sendInterval
    /\ timers = 0


\* every pushed entry was handed to the channel, the queue is empty and the
\* timer is stopped
Drained ==
    /\ Len(dcSent) = Len(enqueued)
    /\ sendBuffer = <<>>
    /\ ~sendInterval
    /\ timers = 0

\* C17: with ticks that keep firing and a channel that rejects only finitely
\* often (it is not closed, and the thread is not stuck in a send), a
\* non-empty send queue of an open session leads to a state where every
\* entry was handed to the channel, the queue is empty and the timer is
\* stopped
C17_DrainLiveness ==
    (dc = "open" /\ sendBuffer # <<>>) ~> (Drained \/ dc = "closed" \/ hung)

\* two entries drained although the channel rejected one hand-off
C17_Witness ==
    /\ dc = "open"
    /\ Drained
    /\ Len(dcSent) = 2
    /\ nFail = 1


\* C18: in the binary modes a chunk of one transfer leaves the table entry
\* of every other transfer as it was; the data event of a transfer comes
\* with a chunk of its own id and carries slices of that id only; and when
\* its chunks have different indexes within range, it comes with the last
\* of them and carries exactly its slices, whatever arrived in between for
\* other ids
C18_Independence ==
    /\ [][ (lastOp' = "message" /\ IsBinary) =>
              \A id \in DOMAIN receivedData \ {lastMsg'.id} :
                 /\ id \in DOMAIN receivedData'
                 /\ receivedData'[id] = receivedData[id] ]_vars
    /\ [](Completed =>
            /\ Len(lastEvents) = 1
            /\ lastEvents[1].name = "data"
            /\ \A k \in 1..Len(lastEvents[1].payload) :
                  k % 2 = 1 => lastEvents[1].payload[k] = lastMsg.id)
    /\ []((Completed /\ Distinct(lastArr)
                /\ InRange(lastArr, lastCur.totalParts)) =>
            /\ lastArr.n = lastCur.totalParts
            /\ lastEvents[1].payload
                  = SlicesFrom(lastMsg.id, 0, lastCur.totalParts))

\* transfer 2 completes with its two chunks while transfer 1, begun before
\* it, is still in the table
C18_Witness ==
    /\ Completed
    /\ lastMsg.id = 2
    /\ Distinct(lastArr)
    /\ InRange(lastArr, 2)
    /\ lastCur.totalParts = 2
    /\ 1 \in DOMAIN receivedData


\* C19: at most one interval timer is alive, and it is the one
\* this.sendInterval holds; a send or pack callback that finds the timer
\* set creates none; only a tick hands an entry to the channel, one per
\* tick
C19_SingleDrainTimer ==
    /\ [](/\ timers <= 1
          /\ timers = 1 <=> sendInterval)
    /\ [][ (sendInterval /\ lastOp' \in {"send", "pack"}) =>
              /\ timers' = timers
              /\ sendInterval' ]_vars
    /\ [][ dcSent' # dcSent =>
              /\ lastOp' = "tick"
              /\ Len(dcSent') = Len(dcSent) + 1 ]_vars

\* a second send found the timer set: two entries queued, one timer
C19_Witness ==
    /\ lastOp = "send"
    /\ lastSend.accepted
    /\ Len(sendBuffer) = 2
    /\ sendInterval
    /\ timers = 1


\* C20: whatever the order in which the blob-to-buffer callbacks complete,
\* the chunks enter the send queue send by send (ids are given in send
\* order) and, within one send, in ascending index order
C20_ChunkEnqueueOrder ==
    \A i, j \in 1..Len(enqueued) :
        (i < j /\ enqueued[i].kind = "chunk" /\ enqueued[j].kind = "chunk")
          => \/ enqueued[i].id < enqueued[j].id
             \/ /\ enqueued[i].id = enqueued[j].id
                /\ enqueued[i].index < enqueued[j].index

=============================================================================
